---- MODULE Spec2Model ----
(***************************************************************************)
(* A model of the webhook routes and their signature verifier, of the UPS   *)
(* OAuth token cache and of POST /tilled of server.js.                     *)
(*                                                                         *)
(* Strings of the program are sequences of one-character strings, so that  *)
(* split, parseInt, the hex decoder and the JSON round trip are computed   *)
(* character by character as the program computes them.                    *)
(***************************************************************************)
EXTENDS Integers, Sequences, FiniteSets, TLC

VARIABLES
    nowMs,             \* Date.now(), milliseconds
    tilledCollection,  \* the tilled_details collection: a sequence of documents
    req,               \* the latest webhook request received (route, header, raw body)
    res,               \* the HTTP status req has been answered, 0 while none
    verdict,           \* what verifyTilledWebhook did for req: "none", "true", "false", "throw"
    updateSent,        \* whether the handler of req sent a findOneAndUpdate
    handledAt,         \* Date.now() when the handler of req ran
    pending,           \* the merchant/status handlers suspended at their await, each
                       \* with the findOneAndUpdate it sent
    answered,          \* the latest response a resumed handler sent
    webhooks,          \* webhook requests received so far
    upsTokenCache,     \* the module-level token cache {token, expiresAt}
    pc,                \* per getUPSToken caller: "idle", "awaiting", "returned", "threw"
    callNow,           \* per caller: the `now` its call read on entry
    result,            \* per caller: the value its call returned
    tokenRequests,     \* per caller: token requests issued by its current call
    response,          \* per caller: what the token endpoint answered its current call
    delivered,         \* the latest token response that carried a token, with the `now`
                       \* of the call it answered
    calls,             \* getUPSToken calls started so far
    post,              \* per POST /tilled request: where its handler stands, its
                       \* payload, the document it built, the status it answered, and
                       \* whether its tenantId had a document when it arrived
    posts              \* POST /tilled requests received so far

vars == <<nowMs, tilledCollection, req, res, verdict, updateSent, handledAt,
          pending, answered, webhooks,
          upsTokenCache, pc, callNow, result, tokenRequests, response, delivered, calls,
          post, posts>>

webhookVars == <<tilledCollection, req, res, verdict, updateSent, handledAt,
                 pending, answered, webhooks>>
tokenVars == <<upsTokenCache, pc, callNow, result, tokenRequests, response, delivered, calls>>
postVars == <<post, posts>>

-----------------------------------------------------------------------------
(* Bounds of the model.                                                     *)

\* Date.now() in the initial state.
ClockStart == 1000000
\* Number of half-second steps the clock takes while webhooks are served.
MaxWebhookTicks == 1
\* Number of webhook requests in one behaviour.
MaxWebhooks == 2
\* Number of ten-second steps the clock takes while tokens are fetched.
MaxTokenTicks == 2
\* Number of getUPSToken calls in one behaviour.
MaxCalls == 3
\* Number of POST /tilled requests in one behaviour.
MaxPosts == 3

-----------------------------------------------------------------------------
(* Characters.                                                              *)

\* the ASCII characters from 32 (space) to 95 (_) and from 97 (a) to 126 (~),
\* in code order; the grave accent (96), which no TLA+ string holds, is left out
AsciiFrom32 ==
    <<" ", "!", "\"", "#", "$", "%", "&", "'", "(", ")", "*", "+", ",", "-", ".", "/", "0", "1", "2", "3", "4", "5", "6", "7", "8", "9", ":", ";", "<", "=", ">", "?", "@", "A", "B", "C", "D", "E", "F", "G", "H", "I", "J", "K", "L", "M", "N", "O", "P", "Q", "R", "S", "T", "U", "V", "W", "X", "Y", "Z", "[", "\\", "]", "^", "_">>
AsciiFrom97 ==
    <<"a", "b", "c", "d", "e", "f", "g", "h", "i", "j", "k", "l", "m", "n", "o", "p", "q", "r", "s", "t", "u", "v", "w", "x", "y", "z", "{", "|", "}", "~">>

\* the UTF-8 byte of a character
Code(c) ==
    IF \E i \in 1..Len(AsciiFrom32) : AsciiFrom32[i] = c
    THEN (CHOOSE i \in 1..Len(AsciiFrom32) : AsciiFrom32[i] = c) + 31
    ELSE (CHOOSE i \in 1..Len(AsciiFrom97) : AsciiFrom97[i] = c) + 96

Digits == <<"0", "1", "2", "3", "4", "5", "6", "7", "8", "9">>
HexLower == <<"0", "1", "2", "3", "4", "5", "6", "7", "8", "9", "a", "b", "c", "d", "e", "f">>
HexUpper == <<"0", "1", "2", "3", "4", "5", "6", "7", "8", "9", "A", "B", "C", "D", "E", "F">>

IsDigit(c) == \E i \in 1..10 : Digits[i] = c
DigitValue(c) == (CHOOSE i \in 1..10 : Digits[i] = c) - 1
IsHex(c) == \E i \in 1..16 : HexLower[i] = c \/ HexUpper[i] = c
HexValue(c) == (CHOOSE i \in 1..16 : HexLower[i] = c \/ HexUpper[i] = c) - 1

RECURSIVE Join(_, _)
\* Array.prototype.join
Join(parts, sep) ==
    IF parts = <<>> THEN <<>>
    ELSE IF Len(parts) = 1 THEN parts[1]
    ELSE parts[1] \o sep \o Join(Tail(parts), sep)

RECURSIVE Split(_, _)
\* String.prototype.split on a one-character separator: always at least one part
Split(s, sep) ==
    IF \A i \in 1..Len(s) : s[i] # sep THEN <<s>>
    ELSE LET i == CHOOSE k \in 1..Len(s) : s[k] = sep /\ \A j \in 1..(k - 1) : s[j] # sep
         IN  <<SubSeq(s, 1, i - 1)>> \o Split(SubSeq(s, i + 1, Len(s)), sep)

RECURSIVE IntToChars(_)
\* String(n) of a non-negative integer
IntToChars(n) ==
    IF n < 10 THEN <<Digits[n + 1]>>
    ELSE IntToChars(n \div 10) \o <<Digits[(n % 10) + 1]>>

\* JavaScript values that may be a string, undefined, or a number sentinel
Str(chars) == [kind |-> "string", chars |-> chars]
Undefined == [kind |-> "undefined", chars |-> <<>>]
MinusOne == [kind |-> "number", chars |-> <<"-", "1">>]
NonString == [kind |-> "number", chars |-> <<"5">>]

\* JavaScript numbers: an integer, or NaN
Num(n) == [nan |-> FALSE, v |-> n]
NaN == [nan |-> TRUE, v |-> 0]

RECURSIVE DigitRun(_, _)
DigitRun(s, acc) ==
    IF s = <<>> \/ ~IsDigit(Head(s)) THEN acc
    ELSE DigitRun(Tail(s), acc * 10 + DigitValue(Head(s)))

RECURSIVE parseInt(_)
\* parseInt(x, 10): leading blanks, an optional sign, then digits up to the
\* first character that is no digit; NaN when there is no digit
parseInt(x) ==
    IF x.kind = "undefined" THEN NaN
    ELSE LET s == x.chars IN
         IF s = <<>> THEN NaN
         ELSE IF Head(s) = " " THEN parseInt(Str(Tail(s)))
         ELSE LET neg == Head(s) = "-"
                  body == IF Head(s) \in {"-", "+"} THEN Tail(s) ELSE s
              IN  IF body = <<>> \/ ~IsDigit(Head(body)) THEN NaN
                  ELSE Num((IF neg THEN -1 ELSE 1) * DigitRun(body, 0))

\* `${x}` in a template literal
TemplateString(x) ==
    IF x.kind = "undefined" THEN <<"u", "n", "d", "e", "f", "i", "n", "e", "d">>
    ELSE x.chars

-----------------------------------------------------------------------------
(* crypto and Buffer.                                                       *)

\* the exclusive or of two numbers of n bits
XorBits[a \in Nat, b \in Nat, n \in 0..8] ==
    IF n = 0 THEN 0
    ELSE 2 * XorBits[a \div 2, b \div 2, n - 1] + ((a + b) % 2)

\* the bitwise and of two numbers of n bits
AndBits[a \in Nat, b \in Nat, n \in 0..8] ==
    IF n = 0 THEN 0
    ELSE 2 * AndBits[a \div 2, b \div 2, n - 1] + ((a % 2) * (b % 2))

\* the two operations on bytes, tabulated
XorByte == [a \in 0..255 |-> [b \in 0..255 |-> XorBits[a, b, 8]]]
AndByte == [a \in 0..255 |-> [b \in 0..255 |-> AndBits[a, b, 8]]]

\* a 32-bit word is the pair <<high 16 bits, low 16 bits>>
Word == (0..65535) \X (0..65535)
ByteString == Seq(0..255)

Xor16(a, b) == 256 * XorByte[a \div 256][b \div 256] + XorByte[a % 256][b % 256]
And16(a, b) == 256 * AndByte[a \div 256][b \div 256] + AndByte[a % 256][b % 256]

\* The operations on words are functions: their arguments are values, each
\* computed once.
Xor32[x \in Word, y \in Word] == <<Xor16(x[1], y[1]), Xor16(x[2], y[2])>>
And32[x \in Word, y \in Word] == <<And16(x[1], y[1]), And16(x[2], y[2])>>
Not32[x \in Word] == <<65535 - x[1], 65535 - x[2]>>

\* addition modulo 2^32
Add32[x \in Word, y \in Word] ==
    <<(x[1] + y[1] + ((x[2] + y[2]) \div 65536)) % 65536, (x[2] + y[2]) % 65536>>

PowersOfTwo == <<1, 2, 4, 8, 16, 32, 64, 128, 256, 512, 1024, 2048, 4096, 8192, 16384, 32768, 65536>>

\* x shifted right by n bits, 0 < n < 16, the bits of `carry` entering from the left
Shift[x \in Word, carry \in 0..65535, n \in 1..15] ==
    <<(x[1] \div PowersOfTwo[n + 1]) + (carry % PowersOfTwo[n + 1]) * PowersOfTwo[17 - n],
      (x[2] \div PowersOfTwo[n + 1]) + (x[1] % PowersOfTwo[n + 1]) * PowersOfTwo[17 - n]>>

\* x rotated right by n bits, 0 < n < 32
RotR[x \in Word, n \in 1..31] ==
    IF n = 16 THEN <<x[2], x[1]>>
    ELSE IF n > 16 THEN Shift[<<x[2], x[1]>>, x[1], n - 16]
    ELSE Shift[x, x[2], n]

\* x shifted right by n bits, 0 < n < 16
ShR[x \in Word, n \in 1..15] == Shift[x, 0, n]

\* the functions of SHA-256 (FIPS 180-4, 4.1.2)
Ch[x \in Word, y \in Word, z \in Word] == Xor32[And32[x, y], And32[Not32[x], z]]
Maj[x \in Word, y \in Word, z \in Word] ==
    Xor32[Xor32[And32[x, y], And32[x, z]], And32[y, z]]
BigSigma0[x \in Word] == Xor32[Xor32[RotR[x, 2], RotR[x, 13]], RotR[x, 22]]
BigSigma1[x \in Word] == Xor32[Xor32[RotR[x, 6], RotR[x, 11]], RotR[x, 25]]
SmallSigma0[x \in Word] == Xor32[Xor32[RotR[x, 7], RotR[x, 18]], ShR[x, 3]]
SmallSigma1[x \in Word] == Xor32[Xor32[RotR[x, 17], RotR[x, 19]], ShR[x, 10]]

\* the round constants of SHA-256 (FIPS 180-4, 4.2.2)
RoundConstants ==
    <<
        <<17034, 12184>>, <<28983, 17553>>, <<46528, 64463>>, <<59829, 56229>>,
        <<14678, 49755>>, <<23025, 4593>>, <<37439, 33444>>, <<43804, 24277>>,
        <<55303, 43672>>, <<4739, 23297>>, <<9265, 34238>>, <<21772, 32195>>,
        <<29374, 23924>>, <<32990, 45566>>, <<39900, 1703>>, <<49563, 61812>>,
        <<58523, 27073>>, <<61374, 18310>>, <<4033, 40390>>, <<9228, 41420>>,
        <<11753, 11375>>, <<19060, 33962>>, <<23728, 43484>>, <<30457, 35034>>,
        <<38974, 20818>>, <<43057, 50797>>, <<45059, 10184>>, <<48985, 32711>>,
        <<50912, 3059>>, <<54695, 37191>>, <<1738, 25425>>, <<5161, 10599>>,
        <<10167, 2693>>, <<11803, 8504>>, <<19756, 28156>>, <<21304, 3347>>,
        <<25866, 29524>>, <<30314, 2747>>, <<33218, 51502>>, <<37490, 11397>>,
        <<41663, 59553>>, <<43034, 26187>>, <<49739, 35696>>, <<51052, 20899>>,
        <<53650, 59417>>, <<54937, 1572>>, <<62478, 13701>>, <<4202, 41072>>,
        <<6564, 49430>>, <<7735, 27656>>, <<10056, 30540>>, <<13488, 48309>>,
        <<14620, 3251>>, <<20184, 43594>>, <<23452, 51791>>, <<26670, 28659>>,
        <<29839, 33518>>, <<30885, 25455>>, <<33992, 30740>>, <<36039, 520>>,
        <<37054, 65530>>, <<42064, 27883>>, <<48889, 41975>>, <<50801, 30962>>
    >>

\* the initial hash value of SHA-256 (FIPS 180-4, 5.3.3)
InitialHash ==
    <<
        <<27145, 58983>>, <<47975, 44677>>, <<15470, 62322>>, <<42319, 62778>>,
        <<20750, 21119>>, <<39685, 26764>>, <<8067, 55723>>, <<23520, 52505>>
    >>

\* the message, a 1 bit, zero bits up to 56 modulo 64 bytes, then the length
\* in bits as 8 bytes
Pad[bytes \in ByteString] ==
    bytes \o <<128>> \o [i \in 1..((119 - (Len(bytes) % 64)) % 64) |-> 0]
    \o <<0, 0, 0, 0, ((8 * Len(bytes)) \div 16777216) % 256,
         ((8 * Len(bytes)) \div 65536) % 256, ((8 * Len(bytes)) \div 256) % 256,
         (8 * Len(bytes)) % 256>>

\* the 16 words of the block that starts after byte `off`
BlockWords[bytes \in ByteString, off \in Nat] ==
    [t \in 1..16 |->
        <<256 * bytes[off + 4 * t - 3] + bytes[off + 4 * t - 2],
          256 * bytes[off + 4 * t - 1] + bytes[off + 4 * t]>>]

\* the message schedule, extended to 64 words
Schedule[w \in Seq(Word)] ==
    IF Len(w) = 64 THEN w
    ELSE Schedule[Append(w, Add32[Add32[SmallSigma1[w[Len(w) - 1]], w[Len(w) - 6]],
                                  Add32[SmallSigma0[w[Len(w) - 14]], w[Len(w) - 15]]])]

\* one round: the working variables v = <<a, b, c, d, e, f, g, h>> after the
\* sums t1 and t2
Round[v \in Seq(Word), t1 \in Word, t2 \in Word] ==
    <<Add32[t1, t2], v[1], v[2], v[3], Add32[v[4], t1], v[5], v[6], v[7]>>

\* rounds t..64
Rounds[v \in Seq(Word), w \in Seq(Word), t \in 1..65] ==
    IF t > 64 THEN v
    ELSE Rounds[Round[v,
                      Add32[Add32[Add32[v[8], BigSigma1[v[5]]], Ch[v[5], v[6], v[7]]],
                            Add32[RoundConstants[t], w[t]]],
                      Add32[BigSigma0[v[1]], Maj[v[1], v[2], v[3]]]],
                w, t + 1]

AddWords[h \in Seq(Word), v \in Seq(Word)] == [i \in 1..8 |-> Add32[h[i], v[i]]]

\* one block absorbed into the hash value h
Compress[h \in Seq(Word), block \in Seq(Word)] == AddWords[h, Rounds[h, Schedule[block], 1]]

Blocks[h \in Seq(Word), bytes \in ByteString, off \in Nat] ==
    IF off >= Len(bytes) THEN h
    ELSE Blocks[Compress[h, BlockWords[bytes, off]], bytes, off + 64]

WordsToBytes[ws \in Seq(Word)] ==
    [i \in 1..(4 * Len(ws)) |->
        LET half == ws[(i + 3) \div 4][IF (i - 1) % 4 < 2 THEN 1 ELSE 2]
        IN  IF i % 2 = 1 THEN half \div 256 ELSE half % 256]

\* SHA-256 of a sequence of bytes, as 32 bytes
Sha256[bytes \in ByteString] == WordsToBytes[Blocks[InitialHash, Pad[bytes], 0]]

\* the key of HMAC as a block of 64 bytes: hashed when longer, then
\* zero-filled (RFC 2104)
KeyBlock[key \in ByteString] ==
    IF Len(key) > 64 THEN Sha256[key] \o [i \in 1..32 |-> 0]
    ELSE key \o [i \in 1..(64 - Len(key)) |-> 0]

\* the key block with every byte combined with the pad byte
XorPad[k \in ByteString, pad \in 0..255] == [i \in 1..64 |-> XorByte[k[i]][pad]]

\* HMAC-SHA256 under a key block: ipad is 0x36, opad is 0x5c (RFC 2104)
HmacKeyed[k \in ByteString, msg \in ByteString] ==
    Sha256[XorPad[k, 92] \o Sha256[XorPad[k, 54] \o msg]]

\* HMAC-SHA256 of bytes under a key of bytes
HmacSha256[key \in ByteString, msg \in ByteString] == HmacKeyed[KeyBlock[key], msg]

\* the UTF-8 bytes of a string of ASCII characters
Bytes[s \in Seq(STRING)] == [i \in 1..Len(s) |-> Code(s[i])]

\* bytes as lower-case hex characters
ToHex[bytes \in ByteString] ==
    [i \in 1..(2 * Len(bytes)) |->
        IF i % 2 = 1 THEN HexLower[(bytes[(i + 1) \div 2] \div 16) + 1]
        ELSE HexLower[(bytes[(i + 1) \div 2] % 16) + 1]]

\* the byte length of a SHA-256 digest
DigestBytes == 32

RECURSIVE BufferFromHex(_)
\* Buffer.from(s, 'hex'): decodes pairs of hex characters and stops at the
\* first pair that is not hex; a trailing odd character is dropped
BufferFromHex(s) ==
    IF Len(s) < 2 \/ ~IsHex(s[1]) \/ ~IsHex(s[2]) THEN <<>>
    ELSE <<16 * HexValue(s[1]) + HexValue(s[2])>> \o BufferFromHex(SubSeq(s, 3, Len(s)))

\* crypto.timingSafeEqual(a, b): RangeError when the byte lengths differ
timingSafeEqual(a, b) ==
    IF Len(a) # Len(b) THEN "throw"
    ELSE IF a = b THEN "true" ELSE "false"

-----------------------------------------------------------------------------
(* express.json() and JSON.stringify, on bodies made of objects and         *)
(* strings without escapes, the keys not being array indices.               *)

JString(chars) == [type |-> "string", chars |-> chars, members |-> <<>>]
JObject(members) == [type |-> "object", chars |-> <<>>, members |-> members]
JUndefined == [type |-> "undefined", chars |-> <<>>, members |-> <<>>]

RECURSIVE SkipWs(_, _)
SkipWs(s, i) == IF i <= Len(s) /\ s[i] = " " THEN SkipWs(s, i + 1) ELSE i

\* the string literal that opens at s[i]
ParseString(s, i) ==
    LET j == CHOOSE k \in (i + 1)..Len(s) :
                 s[k] = "\"" /\ \A m \in (i + 1)..(k - 1) : s[m] # "\""
    IN  [value |-> JString(SubSeq(s, i + 1, j - 1)), next |-> j + 1]

\* obj[key] = value: a repeated key keeps its first place and takes the last value
SetMember(members, key, value) ==
    IF \E i \in 1..Len(members) : members[i].key = key
    THEN [i \in 1..Len(members) |->
             IF members[i].key = key THEN [key |-> key, value |-> value] ELSE members[i]]
    ELSE Append(members, [key |-> key, value |-> value])

RECURSIVE ParseValue(_, _)
RECURSIVE ParseMembers(_, _, _)
ParseValue(s, i0) ==
    LET i == SkipWs(s, i0) IN
    IF s[i] = "\"" THEN ParseString(s, i)
    ELSE ParseMembers(s, SkipWs(s, i + 1), <<>>)

ParseMembers(s, i, acc) ==
    IF s[i] = "}" THEN [value |-> JObject(acc), next |-> i + 1]
    ELSE LET k == ParseString(s, i)
             v == ParseValue(s, SkipWs(s, k.next) + 1)
             j == SkipWs(s, v.next)
             acc2 == SetMember(acc, k.value.chars, v.value)
         IN  IF s[j] = "," THEN ParseMembers(s, SkipWs(s, j + 1), acc2)
             ELSE [value |-> JObject(acc2), next |-> j + 1]

\* req.body as express.json() leaves it for a JSON body
JSONparse(raw) == ParseValue(raw, 1).value

RECURSIVE JSONstringify(_)
RECURSIVE StringifyMembers(_)
JSONstringify(v) ==
    IF v.type = "string" THEN <<"\"">> \o v.chars \o <<"\"">>
    ELSE <<"{">> \o StringifyMembers(v.members) \o <<"}">>

StringifyMembers(members) ==
    IF members = <<>> THEN <<>>
    ELSE <<"\"">> \o members[1].key \o <<"\"", ":">> \o JSONstringify(members[1].value)
         \o (IF Len(members) = 1 THEN <<>> ELSE <<",">> \o StringifyMembers(Tail(members)))

\* v[key]; undefined when v has no such property
GetProp(v, key) ==
    IF v.type = "object" /\ \E i \in 1..Len(v.members) : v.members[i].key = key
    THEN v.members[CHOOSE i \in 1..Len(v.members) : v.members[i].key = key].value
    ELSE JUndefined

-----------------------------------------------------------------------------
(* The secrets, and the bodies and timestamps webhook senders use.          *)

TILLED_WEBHOOK_SECRET_MERCHANT ==
    <<"w", "h", "s", "e", "c", "_", "q", "i", "O", "U", "G", "o", "q", "5", "J", "w", "B", "B", "O", "p", "1", "U", "m", "L", "4", "i", "u", "O", "V", "2", "u", "I", "H", "6", "r", "J", "j", "c">>

TILLED_WEBHOOK_SECRET_PAYMENT ==
    <<"w", "h", "s", "e", "c", "_", "k", "1", "d", "t", "x", "z", "w", "g", "y", "D", "D", "k", "9", "U", "t", "X", "h", "k", "W", "9", "o", "G", "0", "P", "i", "D", "Y", "P", "H", "D", "M", "z">>

BodySigned ==
    <<"{", "\"", "d", "a", "t", "a", "\"", ":", "{", "\"", "s", "t", "a", "t", "u", "s", "\"", ":", "\"", "a", "\"", ",", "\"", "i", "d", "\"", ":", "\"", "m", "\"", "}", "}">>
BodySpaced ==
    <<"{", "\"", "d", "a", "t", "a", "\"", ":", " ", "{", "\"", "s", "t", "a", "t", "u", "s", "\"", ":", "\"", "a", "\"", ",", "\"", "i", "d", "\"", ":", "\"", "m", "\"", "}", "}">>
BodyTampered ==
    <<"{", "\"", "d", "a", "t", "a", "\"", ":", "{", "\"", "s", "t", "a", "t", "u", "s", "\"", ":", "\"", "b", "\"", ",", "\"", "i", "d", "\"", ":", "\"", "m", "\"", "}", "}">>
BodyNoId ==
    <<"{", "\"", "d", "a", "t", "a", "\"", ":", "{", "\"", "s", "t", "a", "t", "u", "s", "\"", ":", "\"", "a", "\"", "}", "}">>
BodyNoData ==
    <<"{", "}">>
BodyUnknownId ==
    <<"{", "\"", "d", "a", "t", "a", "\"", ":", "{", "\"", "s", "t", "a", "t", "u", "s", "\"", ":", "\"", "a", "\"", ",", "\"", "i", "d", "\"", ":", "\"", "x", "\"", "}", "}">>

\* raw request bodies, as received
WebhookBodies == {BodySigned, BodySpaced, BodyTampered, BodyNoId, BodyNoData, BodyUnknownId}

\* header timestamps, in milliseconds, around the clock reading: on and one
\* second beyond the tolerance, in the past and in the future
TimestampOffsets == {0 - 301000, 0 - 300000, 0, 300000, 301000}

\* the t item of a header: none (MinusOne), "t" alone (Undefined), or "t=<chars>"
TimestampFields(clockMs) ==
    {MinusOne, Undefined, Str(<<>>), Str(<<"a", "b", "c">>)}
    \cup {Str(IntToChars(clockMs + d)) : d \in TimestampOffsets}

\* the clock readings of a behaviour
ClockReadings == {ClockStart + 500 * k : k \in 0..MaxWebhookTicks}

WebhookSecrets == {TILLED_WEBHOOK_SECRET_MERCHANT, TILLED_WEBHOOK_SECRET_PAYMENT}

\* the texts '<t>.<body>' that senders and the verifier sign
SignedPayloads ==
    {TemplateString(ts) \o <<".">> \o b :
        ts \in UNION {TimestampFields(c) : c \in ClockReadings}, b \in WebhookBodies}

\* the digests of the signed payloads, computed once
HmacTable ==
    [key \in WebhookSecrets |->
        [msg \in SignedPayloads |-> ToHex[HmacSha256[Bytes[key], Bytes[msg]]]]]

\* crypto.createHmac('sha256', key).update(msg).digest('hex')
Hmac(key, msg) ==
    IF key \in WebhookSecrets /\ msg \in SignedPayloads THEN HmacTable[key][msg]
    ELSE ToHex[HmacSha256[Bytes[key], Bytes[msg]]]

-----------------------------------------------------------------------------
(* The webhook verifier.                                                    *)

SCHEME == <<"v", "1">>

DefaultTolerance == 5 * 60

\* kv[1] of item.split('='): undefined when the item holds no '='
SecondPart(kv) == IF Len(kv) >= 2 THEN Str(kv[2]) ELSE Undefined

RECURSIVE ReduceItems(_, _, _)
ReduceItems(items, scheme, accum) ==
    IF items = <<>> THEN accum
    ELSE LET kv == Split(Head(items), "=")
             a1 == IF kv[1] = <<"t">>
                   THEN [accum EXCEPT !.timestamp = SecondPart(kv)] ELSE accum
             a2 == IF kv[1] = scheme
                   THEN [a1 EXCEPT !.signature = SecondPart(kv)] ELSE a1
         IN  ReduceItems(Tail(items), scheme, a2)

\* parseHeader: null for a header that is no string
parseHeader(header, scheme) ==
    IF header.kind # "string" THEN [null |-> TRUE, timestamp |-> MinusOne, signature |-> MinusOne]
    ELSE [null |-> FALSE] @@
         ReduceItems(Split(header.chars, ","), scheme,
                     [timestamp |-> MinusOne, signature |-> MinusOne])

Abs(x) == IF x < 0 THEN -x ELSE x

\* Math.abs(now - timestamp) > tolerance, with now = floor(Date.now() / 1000)
\* and timestamp = parseInt(t) / 1000, both sides scaled by 1000 so that the
\* quotient stays exact; every comparison with NaN is false
OutsideTolerance(clockMs, timestamp, tolerance) ==
    /\ ~timestamp.nan
    /\ Abs((clockMs \div 1000) * 1000 - timestamp.v) > tolerance * 1000

\* the signed payload the verifier rebuilds
SignedPayload(details, body) ==
    TemplateString(details.timestamp) \o <<".">> \o JSONstringify(body)

\* verifyTilledWebhook(req, webhookSecret, tolerance) at clock reading clockMs:
\* "true", "false", or "throw" when an exception leaves the function
verifyTilledWebhook(header, rawBody, webhookSecret, tolerance, clockMs) ==
    IF header.kind = "undefined" \/ (header.kind = "string" /\ header.chars = <<>>)
    THEN "false"
    ELSE LET details == parseHeader(header, SCHEME) IN
         IF details.null \/ details.timestamp = MinusOne \/ details.signature = MinusOne
         THEN "false"
         ELSE IF OutsideTolerance(clockMs, parseInt(details.timestamp), tolerance)
         THEN "false"
         ELSE LET expectedSignature ==
                      Hmac(webhookSecret, SignedPayload(details, JSONparse(rawBody)))
              IN  IF details.signature.kind = "undefined" THEN "throw"
                  ELSE timingSafeEqual(BufferFromHex(expectedSignature),
                                       BufferFromHex(details.signature.chars))

-----------------------------------------------------------------------------
(* Webhook requests the environment sends.                                  *)

Routes == {"merchant/status", "payment_intent"}

SecretOf(route) ==
    IF route = "merchant/status" THEN TILLED_WEBHOOK_SECRET_MERCHANT
    ELSE TILLED_WEBHOOK_SECRET_PAYMENT

OtherSecretOf(route) ==
    IF route = "merchant/status" THEN TILLED_WEBHOOK_SECRET_PAYMENT
    ELSE TILLED_WEBHOOK_SECRET_MERCHANT

ReplaceAt(s, i, c) == [s EXCEPT ![i] = c]

NextHexDigit(c) == HexLower[((HexValue(c) + 1) % 16) + 1]

\* what one character of a signature may be altered to: another hex digit, the
\* same digit in the other case, a character that is no hex digit
AlteredTo(c) ==
    ({NextHexDigit(c), HexUpper[HexValue(c) + 1], HexLower[HexValue(c) + 1], "g"}) \ {c}

\* the position of a signature that senders alter: its last character
AlteredPositions(s) == {Len(s)}

OneCharAltered(s) ==
    {ReplaceAt(s, i, c) : <<i, c>> \in
        UNION {{<<i, c>> : c \in AlteredTo(s[i])} : i \in AlteredPositions(s)}}

\* the v1 item of a header: none (MinusOne), "v1" alone (Undefined), or "v1=<chars>"
SignatureFields(secret, otherSecret, t, rawBody) ==
    LET prefix == TemplateString(t) \o <<".">>
        sent == Hmac(secret, prefix \o rawBody)
    IN  {MinusOne, Undefined}
        \cup {Str(Hmac(secret, prefix \o b)) : b \in {rawBody, BodySigned}}
        \cup {Str(Hmac(otherSecret, prefix \o rawBody))}
        \cup {Str(s) : s \in OneCharAltered(sent)}
        \cup {Str(<<>>), Str(SubSeq(sent, 1, Len(sent) - 1)), Str(sent \o <<"0", "0">>)}

HeaderItem(key, field) ==
    IF field = MinusOne THEN <<>>
    ELSE IF field = Undefined THEN <<key>>
    ELSE <<key \o <<"=">> \o field.chars>>

\* the tilled-signature header built from a t item and a v1 item
HeaderOf(t, sig) == Str(Join(HeaderItem(<<"t">>, t) \o HeaderItem(SCHEME, sig), <<",">>))

HeadersFor(route, rawBody, clockMs) ==
    {Undefined, NonString}
    \cup UNION {{HeaderOf(t, sig) :
                    sig \in SignatureFields(SecretOf(route), OtherSecretOf(route), t, rawBody)}
                : t \in TimestampFields(clockMs)}

NoRequest == [route |-> "none", header |-> Undefined, rawBody |-> <<>>]

\* no resumed handler has sent a response yet
NothingAnswered == [n |-> 0, status |-> 0]

\* a document of tilled_details, as POST /tilled stores it for a payload that
\* carries an id
Doc(tenantId, email, id, status, updatedAt) ==
    [tenantId |-> tenantId, email |-> email, id |-> id, status |-> status,
     updatedAt |-> updatedAt]

InitialCollection ==
    <<Doc("t1", "a@x", JString(<<"m">>), JString(<<"c", "r", "e", "a", "t", "e", "d">>),
          ClockStart)>>

-----------------------------------------------------------------------------
(* The token cache's initial value.                                         *)

Callers == {"c1", "c2"}

\* null and undefined are written "null" and "undefined"; "" is the empty string
NoToken == "null"

\* let upsTokenCache = { token: null, expiresAt: 0 }
EmptyCache == [token |-> NoToken, expiresAt |-> Num(0)]

\* what the token endpoint answered: nothing yet, a rejection (network error,
\* timeout, HTTP error status), or a 2xx response with its data
NoResponse == [kind |-> "none", access_token |-> NoToken, expires_in |-> NaN]
Rejected == [kind |-> "error", access_token |-> NoToken, expires_in |-> NaN]
Answer(access_token, expires_in) ==
    [kind |-> "ok", access_token |-> access_token, expires_in |-> expires_in]

NothingDelivered == [access_token |-> NoToken, expires_in |-> NaN, now |-> 0]

-----------------------------------------------------------------------------
(* POST /tilled requests.                                                   *)

Requests == {"r1", "r2"}

TenantIds == {"t1", "t2"}
Emails == {"a@x", "b@x"}

\* req.body of POST /tilled
Payloads == [tenantId : TenantIds, email : Emails]

NoPayload == [tenantId |-> "", email |-> ""]

NoDoc == Doc("", "", JUndefined, JUndefined, 0)

NoPost == [pc |-> "idle", payload |-> NoPayload, doc |-> NoDoc, res |-> 0,
           hadRecord |-> FALSE]

-----------------------------------------------------------------------------
(* Initial state: the server has started, no request is being served.       *)

Init ==
    /\ nowMs = ClockStart
    /\ tilledCollection = InitialCollection
    /\ req = NoRequest
    /\ res = 0
    /\ verdict = "none"
    /\ updateSent = FALSE
    /\ pending = {}
    /\ answered = NothingAnswered
    /\ webhooks = 0
    /\ handledAt = ClockStart
    /\ upsTokenCache = EmptyCache
    /\ pc = [p \in Callers |-> "idle"]
    /\ callNow = [p \in Callers |-> 0]
    /\ result = [p \in Callers |-> NoToken]
    /\ tokenRequests = [p \in Callers |-> 0]
    /\ response = [p \in Callers |-> NoResponse]
    /\ delivered = NothingDelivered
    /\ calls = 0
    /\ post = [r \in Requests |-> NoPost]
    /\ posts = 0

-----------------------------------------------------------------------------
(* The webhook routes.                                                      *)

\* a signed webhook request reaches one of the two routes
Arrive ==
    /\ req = NoRequest
    /\ webhooks < MaxWebhooks
    /\ webhooks' = webhooks + 1
    /\ \E route \in Routes, rawBody \in WebhookBodies :
         \E header \in HeadersFor(route, rawBody, nowMs) :
            req' = [route |-> route, header |-> header, rawBody |-> rawBody]
    /\ res' = 0
    /\ verdict' = "none"
    /\ updateSent' = FALSE
    /\ UNCHANGED <<nowMs, tilledCollection, handledAt, pending, answered, tokenVars, postVars>>

\* !id
Falsy(v) == v.type = "undefined" \/ (v.type = "string" /\ v.chars = <<>>)

\* tilledCollection.findOneAndUpdate({ id }, { $set: { status, updatedAt } }):
\* the first document whose id is `id` takes the new status
findOneAndUpdate(collection, id, status, clockMs) ==
    IF \E i \in 1..Len(collection) : collection[i].id = id
    THEN LET k == CHOOSE i \in 1..Len(collection) :
                      collection[i].id = id /\ \A j \in 1..(i - 1) : collection[j].id # id
         IN  [collection EXCEPT ![k] = [@ EXCEPT !.status = status, !.updatedAt = clockMs]]
    ELSE collection

Matches(collection, id) == \E i \in 1..Len(collection) : collection[i].id = id

\* app.post('/tilled/webhook/merchant/status') up to its await: the status
\* answered, or 0 when the handler has sent findOneAndUpdate and is suspended
MerchantStatusOutcome(v, rawBody) ==
    LET body == JSONparse(rawBody)
        data == GetProp(body, <<"d", "a", "t", "a">>)
        id == GetProp(data, <<"i", "d">>)
    IN  IF v = "throw" THEN 500
        ELSE IF v = "false" THEN 401
        ELSE IF data.type = "undefined" THEN 500
        ELSE IF Falsy(id) THEN 400
        ELSE 0

\* the findOneAndUpdate the handler of request n sends at clock reading clockMs
UpdateCall(n, rawBody, clockMs) ==
    LET data == GetProp(JSONparse(rawBody), <<"d", "a", "t", "a">>)
    IN  [n |-> n,
         id |-> GetProp(data, <<"i", "d">>),
         status |-> GetProp(data, <<"s", "t", "a", "t", "u", "s">>),
         updatedAt |-> clockMs]

\* the handler runs from the arrival of req to its first await or its response
MerchantStatusWebhook ==
    /\ req.route = "merchant/status"
    /\ verdict = "none"
    /\ LET v == verifyTilledWebhook(req.header, req.rawBody,
                                    TILLED_WEBHOOK_SECRET_MERCHANT, DefaultTolerance, nowMs)
           status == MerchantStatusOutcome(v, req.rawBody)
       IN  /\ verdict' = v
           /\ res' = status
           /\ updateSent' = (status = 0)
           /\ pending' = IF status = 0
                         THEN pending \cup {UpdateCall(webhooks, req.rawBody, nowMs)}
                         ELSE pending
    /\ handledAt' = nowMs
    /\ UNCHANGED <<nowMs, tilledCollection, req, answered, webhooks, tokenVars, postVars>>

\* the status a handler answers when its findOneAndUpdate is answered, the
\* driver answering a query that matches no document with { value: null }
\* (legacy) or with null
ResumeStatus(collection, call, legacy) ==
    IF Matches(collection, call.id) \/ legacy THEN 200 ELSE 500

\* the database answers a findOneAndUpdate and the handler that sent it
\* resumes and responds
MerchantStatusResume ==
    \E call \in pending, legacy \in BOOLEAN :
        LET status == ResumeStatus(tilledCollection, call, legacy) IN
        /\ tilledCollection' =
               findOneAndUpdate(tilledCollection, call.id, call.status, call.updatedAt)
        /\ pending' = pending \ {call}
        /\ answered' = [n |-> call.n, status |-> status]
        /\ res' = IF req # NoRequest /\ call.n = webhooks THEN status ELSE res
        /\ UNCHANGED <<nowMs, req, verdict, updateSent, handledAt, webhooks, tokenVars,
                       postVars>>

\* app.post('/tilled/webhook/payment_intent'): the status answered
PaymentIntentOutcome(v, rawBody) ==
    LET body == JSONparse(rawBody)
        data == GetProp(body, <<"d", "a", "t", "a">>)
    IN  IF v = "throw" THEN 500
        ELSE IF v = "false" THEN 401
        ELSE IF data.type = "undefined" THEN 500
        ELSE 200

PaymentIntentWebhook ==
    /\ req.route = "payment_intent"
    /\ verdict = "none"
    /\ LET v == verifyTilledWebhook(req.header, req.rawBody,
                                    TILLED_WEBHOOK_SECRET_PAYMENT, DefaultTolerance, nowMs)
       IN  /\ verdict' = v
           /\ res' = PaymentIntentOutcome(v, req.rawBody)
    /\ handledAt' = nowMs
    /\ UNCHANGED <<nowMs, tilledCollection, req, updateSent, pending, answered, webhooks,
                   tokenVars, postVars>>

\* the request is observed no longer: its handler has answered, or stays
\* suspended in `pending`
Close ==
    /\ verdict # "none"
    /\ req' = NoRequest
    /\ res' = 0
    /\ verdict' = "none"
    /\ updateSent' = FALSE
    /\ handledAt' = ClockStart
    /\ UNCHANGED <<nowMs, tilledCollection, pending, answered, webhooks, tokenVars, postVars>>

\* half a second passes
WebhookTick ==
    /\ nowMs + 500 <= ClockStart + 500 * MaxWebhookTicks
    /\ nowMs' = nowMs + 500
    /\ UNCHANGED <<webhookVars, tokenVars, postVars>>

WebhookNext ==
    \/ Arrive
    \/ MerchantStatusWebhook
    \/ MerchantStatusResume
    \/ PaymentIntentWebhook
    \/ Close
    \/ WebhookTick

WebhookSpec == Init /\ [][WebhookNext]_vars

-----------------------------------------------------------------------------
(* The UPS OAuth token cache.                                               *)

\* a value used as a condition
Truthy(token) == token \notin {"null", "undefined", ""}

\* data.access_token of a token response
AccessTokens == {"undefined", "tokA", "tokB"}

\* data.expires_in of a token response, seconds; NaN stands for a response
\* without the field
ExpiresIn == {NaN, Num(60), Num(70)}

\* axios timeout: 15000
RequestTimeoutMs == 15 * 1000

TokenTickMs == 10 * 1000

\* a slip in the expiry test: the comparison the wrong way round
CacheValidInverted(cache, now) ==
    /\ Truthy(cache.token)
    /\ ~cache.expiresAt.nan
    /\ cache.expiresAt.v < now

\* upsTokenCache.token && upsTokenCache.expiresAt > now
CacheValid(cache, now) ==
    /\ Truthy(cache.token)
    /\ ~cache.expiresAt.nan
    /\ cache.expiresAt.v > now

\* a slip in the expiry: the safety margin left out
ExpiresAtNoMargin(now, expires_in) ==
    IF expires_in.nan THEN NaN ELSE Num(now + expires_in.v * 1000)

\* now + (expires_in - 60) * 1000
ExpiresAt(now, expires_in) ==
    IF expires_in.nan THEN NaN ELSE Num(now + (expires_in.v - 60) * 1000)

\* a slip in the cache write: the token assigned in place, the expiry left
CacheWriteTokenOnly(cache, access_token, expires_in, now) ==
    [cache EXCEPT !.token = access_token]

\* the cache after a token response has been accepted
CacheWrite(cache, access_token, expires_in, now) ==
    [token |-> access_token, expiresAt |-> ExpiresAt(now, expires_in)]

\* getUPSToken up to its first suspension: the cached token is returned, or
\* the token request is sent
getUPSTokenEnter(p) ==
    /\ pc[p] = "idle"
    /\ calls < MaxCalls
    /\ calls' = calls + 1
    /\ callNow' = [callNow EXCEPT ![p] = nowMs]
    /\ IF CacheValid(upsTokenCache, nowMs)
       THEN /\ pc' = [pc EXCEPT ![p] = "returned"]
            /\ result' = [result EXCEPT ![p] = upsTokenCache.token]
            /\ tokenRequests' = [tokenRequests EXCEPT ![p] = 0]
       ELSE /\ pc' = [pc EXCEPT ![p] = "awaiting"]
            /\ result' = [result EXCEPT ![p] = NoToken]
            /\ tokenRequests' = [tokenRequests EXCEPT ![p] = 1]
    /\ UNCHANGED <<nowMs, upsTokenCache, response, delivered, webhookVars, postVars>>

\* a slip in the order: the cache written before access_token is checked
ResponseOutcomeCachesFirst(cache, access_token, expires_in, now) ==
    [threw |-> ~Truthy(access_token),
     cache |-> CacheWrite(cache, access_token, expires_in, now),
     value |-> IF Truthy(access_token) THEN access_token ELSE NoToken]

\* getUPSToken from the response to its end: whether it throws, the cache it
\* leaves and the value it returns
ResponseOutcome(cache, access_token, expires_in, now) ==
    IF ~Truthy(access_token)
    THEN [threw |-> TRUE, cache |-> cache, value |-> NoToken]
    ELSE [threw |-> FALSE, cache |-> CacheWrite(cache, access_token, expires_in, now),
          value |-> access_token]

\* the token endpoint answers 2xx before the timeout: getUPSToken resumes and
\* runs to its end
TokenResponse(p) ==
    /\ pc[p] = "awaiting"
    /\ nowMs - callNow[p] < RequestTimeoutMs
    /\ \E access_token \in AccessTokens, expires_in \in ExpiresIn :
         LET out == ResponseOutcome(upsTokenCache, access_token, expires_in, callNow[p])
         IN  /\ response' = [response EXCEPT ![p] = Answer(access_token, expires_in)]
             /\ upsTokenCache' = out.cache
             /\ result' = [result EXCEPT ![p] = out.value]
             /\ pc' = [pc EXCEPT ![p] = IF out.threw THEN "threw" ELSE "returned"]
             /\ delivered' = IF Truthy(access_token)
                             THEN [access_token |-> access_token, expires_in |-> expires_in,
                                   now |-> callNow[p]]
                             ELSE delivered
    /\ UNCHANGED <<nowMs, callNow, tokenRequests, calls, webhookVars, postVars>>

\* the token request is rejected (network error, timeout, HTTP error status):
\* the catch block logs and rethrows
TokenRequestFails(p) ==
    /\ pc[p] = "awaiting"
    /\ pc' = [pc EXCEPT ![p] = "threw"]
    /\ response' = [response EXCEPT ![p] = Rejected]
    /\ UNCHANGED <<nowMs, upsTokenCache, callNow, result, tokenRequests, delivered, calls,
                   webhookVars, postVars>>

\* the route handler that called getUPSToken has answered
Release(p) ==
    /\ pc[p] \in {"returned", "threw"}
    /\ pc' = [pc EXCEPT ![p] = "idle"]
    /\ result' = [result EXCEPT ![p] = NoToken]
    /\ tokenRequests' = [tokenRequests EXCEPT ![p] = 0]
    /\ response' = [response EXCEPT ![p] = NoResponse]
    /\ UNCHANGED <<nowMs, upsTokenCache, callNow, delivered, calls, webhookVars, postVars>>

\* ten seconds pass
TokenTick ==
    /\ nowMs + TokenTickMs <= ClockStart + TokenTickMs * MaxTokenTicks
    /\ nowMs' = nowMs + TokenTickMs
    /\ UNCHANGED <<webhookVars, tokenVars, postVars>>

TokenNext ==
    \/ \E p \in Callers : getUPSTokenEnter(p)
    \/ \E p \in Callers : TokenResponse(p)
    \/ \E p \in Callers : TokenRequestFails(p)
    \/ \E p \in Callers : Release(p)
    \/ TokenTick

TokenSpec == Init /\ [][TokenNext]_vars

-----------------------------------------------------------------------------
(* app.post('/tilled'): create a merchant profile record.                   *)

\* tilledCollection.findOne({ tenantId }): whether a document matches
HasTenant(collection, tenantId) ==
    \E i \in 1..Len(collection) : collection[i].tenantId = tenantId

\* the unique index unique_tenant_email: { tenantId: 1, email: 1 }
ViolatesUniqueIndex(collection, doc) ==
    \E i \in 1..Len(collection) :
        collection[i].tenantId = doc.tenantId /\ collection[i].email = doc.email

\* { ...payload, createdAt, updatedAt, status: 'created' }
NewDoc(payload, clockMs) ==
    Doc(payload.tenantId, payload.email, JUndefined,
        JString(<<"c", "r", "e", "a", "t", "e", "d">>), clockMs)

otherVars == <<nowMs, req, res, verdict, updateSent, handledAt, pending, answered, webhooks,
               tokenVars>>

\* a POST /tilled request arrives; the handler sends findOne({ tenantId })
PostTilledArrive(r) ==
    /\ post[r].pc = "idle"
    /\ posts < MaxPosts
    /\ posts' = posts + 1
    /\ \E payload \in Payloads :
         post' = [post EXCEPT ![r] =
                     [pc |-> "finding", payload |-> payload, doc |-> NoDoc, res |-> 0,
                      hadRecord |-> HasTenant(tilledCollection, payload.tenantId)]]
    /\ UNCHANGED <<tilledCollection, otherVars>>

\* findOne answers: 422 when the tenant has a document, otherwise the
\* document is built and insertOne is sent
PostTilledFound(r) ==
    /\ post[r].pc = "finding"
    /\ IF HasTenant(tilledCollection, post[r].payload.tenantId)
       THEN post' = [post EXCEPT ![r].pc = "done", ![r].res = 422]
       ELSE post' = [post EXCEPT ![r].pc = "inserting",
                                 ![r].doc = NewDoc(post[r].payload, nowMs)]
    /\ UNCHANGED <<tilledCollection, posts, otherVars>>

\* insertOne answers: the document is stored, or the unique index refuses it
\* (err.code === 11000) and the catch block answers 409
PostTilledInserted(r) ==
    /\ post[r].pc = "inserting"
    /\ IF ViolatesUniqueIndex(tilledCollection, post[r].doc)
       THEN /\ post' = [post EXCEPT ![r].pc = "done", ![r].res = 409]
            /\ UNCHANGED tilledCollection
       ELSE /\ tilledCollection' = Append(tilledCollection, post[r].doc)
            /\ post' = [post EXCEPT ![r].pc = "reading"]
    /\ UNCHANGED <<posts, otherVars>>

\* findOne({ _id: result.insertedId }) answers: 201 with the created document
PostTilledCreated(r) ==
    /\ post[r].pc = "reading"
    /\ post' = [post EXCEPT ![r].pc = "done", ![r].res = 201]
    /\ UNCHANGED <<tilledCollection, posts, otherVars>>

\* the response has been sent and the request is over
PostTilledClose(r) ==
    /\ post[r].pc = "done"
    /\ post' = [post EXCEPT ![r] = NoPost]
    /\ UNCHANGED <<tilledCollection, posts, otherVars>>

TilledNext ==
    \/ \E r \in Requests : PostTilledArrive(r)
    \/ \E r \in Requests : PostTilledFound(r)
    \/ \E r \in Requests : PostTilledInserted(r)
    \/ \E r \in Requests : PostTilledCreated(r)
    \/ \E r \in Requests : PostTilledClose(r)

TilledSpec == Init /\ [][TilledNext]_vars

-----------------------------------------------------------------------------
(* Claims about the webhook verifier, stated on the request whose handler   *)
(* has run.                                                                 *)

Handled == verdict # "none"

\* the header of the served request as parseHeader reads it
Details == parseHeader(req.header, SCHEME)

\* t is a string of digits, read here as milliseconds
TimestampIsInteger ==
    /\ ~Details.null
    /\ Details.timestamp.kind = "string"
    /\ Details.timestamp.chars # <<>>
    /\ \A i \in 1..Len(Details.timestamp.chars) : IsDigit(Details.timestamp.chars[i])

TimestampMs == DigitRun(Details.timestamp.chars, 0)

\* how far the header timestamp is from the clock reading of the handler
AgeMs == Abs(handledAt - TimestampMs)

\* the hex HMAC, keyed by the route's secret, of '<raw t>.<body>'
SenderSignature(body) ==
    Hmac(SecretOf(req.route), Details.timestamp.chars \o <<".">> \o body)

\* v1 carries the signature of '<raw t>.<body>'
SignedOver(body) ==
    /\ Details.signature.kind = "string"
    /\ Details.signature.chars = SenderSignature(body)

\* b is a with exactly one byte replaced
DiffersInOneByte(a, b) ==
    /\ Len(a) = Len(b)
    /\ Cardinality({i \in 1..Len(a) : a[i] # b[i]}) = 1

\* C1: for a timestamp within tolerance (taken here strictly inside the
\* window), the verifier returns true when v1 is the hex HMAC of
\* '<raw t>.<raw body as received>', and false when v1 is the HMAC of a body
\* that differs from the received one in a single byte.
C1_RawBodyDecides ==
    (Handled /\ TimestampIsInteger /\ AgeMs < DefaultTolerance * 1000 - 1000) =>
        /\ SignedOver(req.rawBody) => verdict = "true"
        /\ \A b \in WebhookBodies :
              (DiffersInOneByte(b, req.rawBody) /\ SignedOver(b)) => verdict = "false"

\* C2: the verifier never raises an exception, whatever the header and body.
C2_NeverThrows == verdict # "throw"

\* C3: on both routes a request whose verification does not succeed is
\* answered 401 and no stored document is modified: its handler sends no
\* update.
C3_Unverified401 ==
    (Handled /\ verdict # "true") => (res = 401 /\ ~updateSent)

\* the keys of the header's items
HeaderKeys ==
    IF req.header.kind # "string" THEN {}
    ELSE LET items == Split(req.header.chars, ",")
         IN  {Split(items[i], "=")[1] : i \in 1..Len(items)}

\* the header is absent, is no string, lacks t or v1, or its t has no value
\* or a value that is no integer
NotWellFormed ==
    \/ req.header.kind # "string"
    \/ <<"t">> \notin HeaderKeys
    \/ SCHEME \notin HeaderKeys
    \/ Details.timestamp.kind # "string"
    \/ parseInt(Details.timestamp).nan

\* the header carries no v1 item, or one whose value decodes to a buffer of
\* the digest's length: the comparison of the signatures raises no exception
SignatureComparable ==
    \/ Details.null
    \/ Details.signature = MinusOne
    \/ /\ Details.signature.kind = "string"
       /\ Len(BufferFromHex(Details.signature.chars)) = DigestBytes

\* C4: a header that is not well-formed yields false, whatever its other
\* fields and its signature (stated where the signature comparison raises no
\* exception, which is the matter of C2).
C4_MalformedHeaderFalse ==
    (Handled /\ NotWellFormed /\ SignatureComparable) => verdict = "false"

\* the received body is already in the form JSON.stringify gives it
BodyIsCanonical == JSONstringify(JSONparse(req.rawBody)) = req.rawBody

\* C5: with a correctly computed signature, a timestamp exactly `tolerance`
\* seconds from the current time, in the past or in the future, is accepted
\* and one a second further is rejected, at every sub-second clock position.
C5_ToleranceBoundary ==
    (Handled /\ TimestampIsInteger /\ BodyIsCanonical /\ SignedOver(req.rawBody)) =>
        /\ AgeMs = DefaultTolerance * 1000 => verdict = "true"
        /\ AgeMs = (DefaultTolerance + 1) * 1000 => verdict = "false"

\* what a hex character of the signature may be altered to
AlterChars ==
    {HexLower[i] : i \in 1..16} \cup {HexUpper[i] : i \in 1..16} \cup {"g"}

\* the headers that are the served header with one character of its v1 value
\* altered (the v1 value closes the header)
AlteredHeaders ==
    LET h == req.header.chars
        n == Len(Details.signature.chars)
    IN  IF SubSeq(h, Len(h) - n + 1, Len(h)) # Details.signature.chars THEN {}
        ELSE {Str(ReplaceAt(h, Len(h) - n + i, c)) : <<i, c>> \in
                {<<j, d>> \in (1..n) \X AlterChars : d # h[Len(h) - n + j]}}

\* C6: for an accepted request, altering exactly one hex character of the v1
\* signature makes the verifier return false.
C6_AlteredSignatureFalse ==
    (Handled /\ verdict = "true" /\ TimestampIsInteger) =>
        \A h \in AlteredHeaders :
            verifyTilledWebhook(h, req.rawBody, SecretOf(req.route),
                                DefaultTolerance, handledAt) = "false"

-----------------------------------------------------------------------------
(* Claims about the token cache.                                            *)

\* the cache holds a token whose expiresAt is later than the clock reading
HoldsLiveToken ==
    /\ Truthy(upsTokenCache.token)
    /\ ~upsTokenCache.expiresAt.nan
    /\ upsTokenCache.expiresAt.v > nowMs

\* caller p starts a call in this step
Enters(p) == pc[p] = "idle" /\ pc'[p] # "idle"

\* C7: whenever the cache holds a token whose expiresAt is later than the
\* current time, a call returns exactly that token, sends no token request
\* and leaves the cache unchanged.
C7_LiveTokenReturned ==
    [][\A p \in Callers :
          (Enters(p) /\ HoldsLiveToken) =>
              /\ pc'[p] = "returned"
              /\ result'[p] = upsTokenCache.token
              /\ tokenRequests' = [tokenRequests EXCEPT ![p] = 0]
              /\ upsTokenCache' = upsTokenCache]_vars

\* a call has been served from the cache without a token request
C7_Witness ==
    \E p \in Callers :
        /\ pc[p] = "returned"
        /\ tokenRequests[p] = 0
        /\ result[p] = upsTokenCache.token
        /\ HoldsLiveToken

\* C8 as claimed: the call that fetched a token sent one request and returned
\* the token, and the cache holds the token with the expiry
\* now + (expires_in - 60 s), which lies in the future, whatever lifetime the
\* endpoint reported.
C8_ExpiryAlwaysFuture ==
    /\ \A p \in Callers :
          (pc[p] = "returned" /\ response[p].kind = "ok") =>
              (tokenRequests[p] = 1 /\ result[p] = response[p].access_token)
    /\ Truthy(upsTokenCache.token) =>
          /\ upsTokenCache.token = delivered.access_token
          /\ ~upsTokenCache.expiresAt.nan
          /\ ~delivered.expires_in.nan
          /\ upsTokenCache.expiresAt.v = delivered.now + (delivered.expires_in.v - 60) * 1000
          /\ upsTokenCache.expiresAt.v > delivered.now

\* caller p's token request is answered with a token in this step
Refreshes(p) ==
    /\ pc[p] = "awaiting"
    /\ response'[p].kind = "ok"
    /\ Truthy(response'[p].access_token)

\* C8 as amended: a call that finds the cache empty or expired sends exactly
\* one token request; on success it returns the new token and replaces the
\* cache with that token and the expiry now + (expires_in - 60) * 1000, `now`
\* being the call's clock reading on entry; that expiry is later than `now`
\* exactly when expires_in exceeds 60, and is NaN when the response has no
\* expires_in.
C8_ExpiryFromResponse ==
    [][\A p \in Callers :
          /\ (Enters(p) /\ ~HoldsLiveToken) =>
                (pc'[p] = "awaiting" /\ tokenRequests'[p] = 1)
          /\ pc[p] = "awaiting" => tokenRequests'[p] = 1
          /\ Refreshes(p) =>
                LET r == response'[p] IN
                /\ pc'[p] = "returned"
                /\ result'[p] = r.access_token
                /\ upsTokenCache'.token = r.access_token
                /\ upsTokenCache'.expiresAt.nan = r.expires_in.nan
                /\ ~r.expires_in.nan =>
                      /\ upsTokenCache'.expiresAt.v = callNow[p] + (r.expires_in.v - 60) * 1000
                      /\ (upsTokenCache'.expiresAt.v > callNow[p]) <=> (r.expires_in.v > 60)]_vars

\* an empty or expired cache has been refreshed by a call that sent one
\* request, with a lifetime of no more than the margin
C8_Witness ==
    \E p \in Callers :
        /\ pc[p] = "returned"
        /\ tokenRequests[p] = 1
        /\ response[p].kind = "ok"
        /\ result[p] = upsTokenCache.token
        /\ response[p].expires_in = Num(60)
        /\ upsTokenCache.expiresAt = Num(callNow[p])

\* caller p's token request fails in this step: it is rejected, or answered
\* without access_token
RequestFails(p) ==
    /\ pc[p] = "awaiting"
    /\ response'[p] # response[p]
    /\ \/ response'[p].kind = "error"
       \/ response'[p].kind = "ok" /\ ~Truthy(response'[p].access_token)

\* C9: when the token request fails or the response lacks access_token, the
\* call fails with an error, the cache is left exactly as it was, and no
\* partial or empty result is ever stored in the cache.
C9_FailureKeepsCache ==
    /\ [][\A p \in Callers :
             RequestFails(p) =>
                 /\ pc'[p] = "threw"
                 /\ result'[p] = NoToken
                 /\ upsTokenCache' = upsTokenCache]_vars
    /\ [](upsTokenCache = EmptyCache \/ Truthy(upsTokenCache.token))

\* a call has failed on a response without access_token while the cache
\* holds a token fetched earlier
C9_Witness ==
    \E p \in Callers :
        /\ pc[p] = "threw"
        /\ response[p].kind = "ok"
        /\ Truthy(upsTokenCache.token)
        /\ upsTokenCache.token = delivered.access_token

\* the (token, expiresAt) pair one token response writes
PairOf(r) ==
    [token |-> r.access_token,
     expiresAt |-> IF r.expires_in.nan THEN NaN
                   ELSE Num(r.now + (r.expires_in.v - 60) * 1000)]

\* C10: under any interleaving of calls suspended at the token request, the
\* cache is the initial empty value or the (token, expiresAt) pair written
\* from one single token response.
C10_CacheIsOnePair ==
    \/ upsTokenCache = EmptyCache /\ delivered = NothingDelivered
    \/ Truthy(delivered.access_token) /\ upsTokenCache = PairOf(delivered)

\* two calls that were suspended at the token request together have both
\* refreshed the cache, the later response overwriting the earlier one: q's
\* token was live at p's entry, so p, which did send a request, entered
\* before q's response arrived
C10_Witness ==
    \E p, q \in Callers :
        /\ p # q
        /\ pc[p] = "returned" /\ pc[q] = "returned"
        /\ tokenRequests[p] = 1 /\ tokenRequests[q] = 1
        /\ callNow[p] = callNow[q]
        /\ response[q].expires_in = Num(70)
        /\ result[p] # result[q]
        /\ upsTokenCache.token = result[p]

-----------------------------------------------------------------------------
(* Claim about POST /tilled.                                                *)

\* C11: after any sequence and interleaving of POST /tilled requests the
\* store holds at most one merchant-profile record per tenantId, and a
\* request for a tenantId that already has a record is answered 422 without
\* inserting.
C11_OneRecordPerTenant ==
    /\ \A i, j \in 1..Len(tilledCollection) :
          i # j => tilledCollection[i].tenantId # tilledCollection[j].tenantId
    /\ \A r \in Requests :
          (post[r].hadRecord /\ post[r].pc \notin {"idle", "finding"}) =>
              (post[r].pc = "done" /\ post[r].res = 422 /\ post[r].doc = NoDoc)

====
